---- MODULE Spec2Model ----
(***************************************************************************)
(* Model of the login-authentication backend (Express server with the two  *)
(* handlers POST /api/signup and POST /api/login over users.json and       *)
(* loginLogs.json).                                                        *)
(*                                                                         *)
(* Node runs each handler to completion: both handlers only make           *)
(* synchronous calls (readFileSync, writeFileSync, hashSync, compareSync), *)
(* so one handler invocation is one atomic step.  What is concurrent is    *)
(* the set of requests in flight: several clients may have sent a request  *)
(* that the server has not handled yet, and the server takes them in any   *)
(* order.                                                                  *)
(*                                                                         *)
(* Optional JavaScript values (a body field that may be missing, the       *)
(* result of a property lookup that may be undefined) are sets with at     *)
(* most one element: {} is undefined.  Usernames are strings, passwords    *)
(* are sequences of bytes.                                                 *)
(***************************************************************************)
EXTENDS Integers, Sequences, FiniteSets, Bags, TLC

VARIABLES
    users,     \* content of users.json: username -> credential record
    logs,      \* content of loginLogs.json: sequence of attempt entries
    now,       \* the system clock, in milliseconds
    inflight,  \* the bag of requests in flight (sent, not handled yet)
    sent,      \* number of requests sent so far
    last,      \* of the request handled last: its username, the response and
               \* the handler's fs calls ({}: none handled yet)
    reg,       \* per registered username, the password it was registered
               \* with (history; the server keeps no such thing)
    \* The client-only frontend (App, LoginForm, SignupForm, Dashboard)
    simView,       \* App's view: "login", "signup" or "dashboard"
    simUser,       \* App's user: {} is null, else {[username |-> ...]}
    loginForm,     \* LoginForm's state: username, password, loading, error
    loginPending,  \* LoginForm.submit waiting for its timer: the username
                   \* its closure holds and the time left on the timer
                   \* ({}: no submit waiting)
    signupForm,    \* SignupForm's state
    signupPending, \* SignupForm.submit waiting for its timer: the time left
                   \* ({}: no submit waiting)
    \* The identity-SDK frontend (App, AuthForm, Dashboard) and the SDK
    fbPhase,       \* "mounting" before App's effect has run, then
                   \* "unconfigured" (firebaseConfig is empty) or "running"
    fbView,        \* App's view: "login", "register" or "dashboard"
    userId,        \* App's userId: {} is null, else {uid}
    isAuthReady,   \* App's isAuthReady
    auth,          \* App's auth: {} is null, else {"authInstance"}
    listenerView,  \* the view held by the closure of the auth-state listener
                   \* ({}: no listener is subscribed)
    sdkUser,       \* the SDK's current user: {} is null, else {uid}
    signingIn,     \* an authenticateUser call is waiting for the SDK
    signingOut,    \* handleLogout is waiting for signOut
    authForm,      \* AuthForm's state: email, password, isLoading, error
    authPending    \* the handleSubmit calls waiting for their timer: the
                   \* email and password of the closure, and whether the
                   \* form that made the call is still mounted

\* The server's state
serverVars == <<users, logs, now, inflight, sent, last, reg>>

\* The client-only frontend's state
simVars == <<simView, simUser, loginForm, loginPending, signupForm, signupPending>>

\* The identity-SDK frontend's state, and the SDK's
fbVars == <<fbPhase, fbView, userId, isAuthReady, auth, listenerView, sdkUser,
            signingIn, signingOut, authForm, authPending>>

vars == <<serverVars, simVars, fbVars>>

----------------------------------------------------------------------------
(* Bounds of the model *)

MaxRequests == 3      \* requests sent in one behaviour
MaxInFlight == 2      \* requests in flight at one time
TickMs == 600         \* milliseconds from one handler run to the next

----------------------------------------------------------------------------
(* Values *)

Max(a, b) == IF a >= b THEN a ELSE b

Min(a, b) == IF a < b THEN a ELSE b

The(s) == CHOOSE x \in s : TRUE

\* bcryptjs uses at most 72 bytes of the NUL-terminated password
BcryptMaxBytes == 72
BcryptRounds == 10
MsPerSecond == 1000

\* Names every object inherits from Object.prototype
ObjectPrototypeKeys == {"constructor", "__proto__"}

Usernames == {"alice", "bob", "constructor"}

ShortPw == <<1>>
LongPw == [i \in 1..BcryptMaxBytes |-> 1]
LongPwA == LongPw \o <<2>>
LongPwB == LongPw \o <<3>>
Passwords == {ShortPw, LongPwA, LongPwB}

\* What a request body can carry in a field: nothing, the empty string, a value
UsernameInputs == {{}, {""}} \cup {{u} : u \in Usernames}
PasswordInputs == {{}, {<<>>}} \cup {{p} : p \in Passwords}

Salts == {"saltA", "saltB"}

----------------------------------------------------------------------------
(* bcryptjs, as the handlers use it *)

\* The bytes of the password that enter the key schedule: the password is
\* NUL-terminated and only its first BcryptMaxBytes bytes are used.
BcryptKey(password) ==
    SubSeq(password \o <<0>>, 1, Min(Len(password) + 1, BcryptMaxBytes))

\* bcrypt.hashSync(password, salt): the hash string carries the cost, the salt
\* and a digest that is a one-way function of the salt and the key bytes.
hashSync(password, salt) ==
    [rounds |-> BcryptRounds, salt |-> salt, digest |-> <<salt, BcryptKey(password)>>]

\* Mutant: hashes the password with a salt of its own instead of the stored one
compareSync_FreshSalt(password, hash) ==
    hashSync(password, "saltA") = hash

\* bcrypt.compareSync(password, hash): hashes the password again with the salt
\* of the stored hash and compares the two hash strings.
compareSync(password, hash) ==
    hashSync(password, hash.salt) = hash

----------------------------------------------------------------------------
(* JavaScript helpers *)

\* !v for a body field: undefined and the empty string (empty, in the
\* field's representation) are falsy
Falsy(v, empty) == v = {} \/ v = {empty}

\* if (!username || !password)
MissingField(body) == Falsy(body.username, "") \/ Falsy(body.password, <<>>)

\* Mutant: the lookup misses the stored records (users.username)
GetUser_Undefined(us, username) == {}

\* users[username] on the object JSON.parse returned: an own property first,
\* then what Object.prototype provides, else undefined.
GetUser(us, username) ==
    IF username \in DOMAIN us THEN {us[username]}
    ELSE IF username \in ObjectPrototypeKeys THEN {[inherited |-> username]}
    ELSE {}

\* Mutant: the new record replaces the whole document
PutUser_Replace(us, username, record) ==
    [k \in {username} |-> record]

\* users[username] = record
PutUser(us, username, record) ==
    [k \in DOMAIN us \cup {username} |-> IF k = username THEN record ELSE us[k]]

\* new Date().toISOString(): millisecond resolution
toISOString(t) == t

\* new Date().toLocaleString(): second resolution
toLocaleString(t) == t \div MsPerSecond

----------------------------------------------------------------------------
(* Responses *)

RequiredResponse ==
    [status |-> 400, success |-> FALSE, message |-> "Username and password are required"]
ConflictResponse ==
    [status |-> 409, success |-> FALSE, message |-> "Username already exists"]
SignupOkResponse ==
    [status |-> 200, success |-> TRUE, message |-> "Signup successful"]
InvalidCredentialsResponse ==
    [status |-> 401, success |-> FALSE, message |-> "Invalid username or password"]
LoginOkResponse ==
    [status |-> 200, success |-> TRUE, message |-> "Login successful"]
\* Express's default error handler, when a handler throws
ServerErrorResponse(error) ==
    [status |-> 500, error |-> error]

----------------------------------------------------------------------------
(* The two handlers, as functions of the files' contents and the inputs *)

\* The record signup stores
CredentialRecord(password, salt, t) ==
    [passwordHash |-> hashSync(password, salt), createdAt |-> toISOString(t)]

\* Mutant: the entry also records the password
LogEntry_WithPassword(username, password, t, isValid) ==
    [username |-> username, password |-> password,
     date |-> toLocaleString(t), success |-> isValid]

\* Mutant: the entry records success whatever compareSync returned
LogEntry_AlwaysSuccess(username, password, t, isValid) ==
    [username |-> username, date |-> toLocaleString(t), success |-> TRUE]

\* The entry login appends
LogEntry(username, password, t, isValid) ==
    [username |-> username, date |-> toLocaleString(t), success |-> isValid]

\* Mutant: logs.unshift(logEntry)
PushLog_Unshift(lg, entry) == <<entry>> \o lg

\* logs.push(logEntry)
PushLog(lg, entry) == Append(lg, entry)

\* Mutant: signup without the "already exists" check
Signup_NoConflictCheck(us, lg, body, t, salt) ==
    IF MissingField(body)
    THEN [users |-> us, logs |-> lg, res |-> RequiredResponse, io |-> <<>>]
    ELSE [users |-> PutUser(us, The(body.username),
                            CredentialRecord(The(body.password), salt, t)),
          logs |-> lg, res |-> SignupOkResponse,
          io |-> <<"read users", "write users">>]

\* Mutant: signup reads users.json before it validates the body
Signup_ReadsBeforeValidation(us, lg, body, t, salt) ==
    IF MissingField(body)
    THEN [users |-> us, logs |-> lg, res |-> RequiredResponse,
          io |-> <<"read users">>]
    ELSE IF GetUser(us, The(body.username)) # {}
    THEN [users |-> us, logs |-> lg, res |-> ConflictResponse,
          io |-> <<"read users">>]
    ELSE [users |-> PutUser(us, The(body.username),
                            CredentialRecord(The(body.password), salt, t)),
          logs |-> lg, res |-> SignupOkResponse,
          io |-> <<"read users", "write users">>]

\* app.post('/api/signup', ...): t is the clock, salt what genSaltSync draws
Signup(us, lg, body, t, salt) ==
    IF MissingField(body)
    THEN [users |-> us, logs |-> lg, res |-> RequiredResponse, io |-> <<>>]
    ELSE LET username == The(body.username)
             password == The(body.password)
         IN  IF GetUser(us, username) # {}
             THEN [users |-> us, logs |-> lg, res |-> ConflictResponse,
                   io |-> <<"read users">>]
             ELSE [users |-> PutUser(us, username, CredentialRecord(password, salt, t)),
                   logs |-> lg, res |-> SignupOkResponse,
                   io |-> <<"read users", "write users">>]

\* app.post('/api/login', ...)
Login(us, lg, body, t) ==
    IF MissingField(body)
    THEN [users |-> us, logs |-> lg, res |-> RequiredResponse, io |-> <<>>]
    ELSE LET username == The(body.username)
             password == The(body.password)
             user == GetUser(us, username)
         IN  IF user = {}
             THEN [users |-> us, logs |-> lg, res |-> InvalidCredentialsResponse,
                   io |-> <<"read users">>]
             ELSE IF "passwordHash" \notin DOMAIN The(user)
             THEN \* compareSync(password, undefined) throws
                  [users |-> us, logs |-> lg,
                   res |-> ServerErrorResponse("Illegal arguments: string, undefined"),
                   io |-> <<"read users">>]
             ELSE LET isValid == compareSync(password, The(user).passwordHash)
                  IN  [users |-> us,
                       logs |-> PushLog(lg, LogEntry(username, password, t, isValid)),
                       res |-> IF isValid THEN LoginOkResponse
                               ELSE InvalidCredentialsResponse,
                       io |-> <<"read users", "read logs", "write logs">>]

----------------------------------------------------------------------------
(* The client-only frontend: App with LoginForm, SignupForm and Dashboard *)

\* The delay of a simulated submit, and the step by which the model lets the
\* time on a timer run down
SubmitDelayMs == 300
TimerStepMs == 100

\* What a user types into a text field
TypedUsernames == {"", "ann", "bo", "cy"}
TypedPasswords == {"", "pw"}

\* useState('') twice, useState(false), useState(''): a form as it is mounted
FreshForm == [username |-> "", password |-> "", loading |-> FALSE, error |-> ""]

\* useState('login'), useState(null); LoginForm is mounted
SimInit ==
    /\ simView = "login"
    /\ simUser = {}
    /\ loginForm = FreshForm
    /\ loginPending = {}
    /\ signupForm = FreshForm
    /\ signupPending = {}

\* setView(v): the form of the view that is left is unmounted, the form of the
\* view that is entered is mounted with fresh state
SetView(v) ==
    /\ simView' = v
    /\ loginForm' = IF v = simView /\ v = "login" THEN loginForm ELSE FreshForm
    /\ signupForm' = IF v = simView /\ v = "signup" THEN signupForm ELSE FreshForm

\* onChange of LoginForm's inputs
LoginType(username, password) ==
    /\ simView = "login"
    /\ loginForm' = [loginForm EXCEPT !.username = username, !.password = password]
    /\ UNCHANGED <<simView, simUser, loginPending, signupForm, signupPending>>
    /\ UNCHANGED <<serverVars, fbVars>>

\* LoginForm.submit up to its await: the form submits when both required
\* inputs are filled and the submit button is not disabled
LoginSubmit ==
    /\ simView = "login"
    /\ ~loginForm.loading
    /\ loginForm.username # "" /\ loginForm.password # ""
    /\ loginForm' = [loginForm EXCEPT !.error = "", !.loading = TRUE]
    /\ loginPending' = {[username |-> loginForm.username, ms |-> SubmitDelayMs]}
    /\ UNCHANGED <<simView, simUser, signupForm, signupPending>>
    /\ UNCHANGED <<serverVars, fbVars>>

\* handleAuthSuccess(u)
handleAuthSuccess(u) ==
    /\ simUser' = {u}
    /\ SetView("dashboard")

\* LoginForm.submit after its await: the timer has fired; onSuccess({ username })
\* and, in finally, setLoading(false)
LoginTimer ==
    /\ loginPending # {}
    /\ The(loginPending).ms = 0
    /\ handleAuthSuccess([username |-> The(loginPending).username])
    /\ loginPending' = {}
    /\ UNCHANGED signupPending
    /\ UNCHANGED <<serverVars, fbVars>>

\* (variant for the mutation check: the link is not disabled while loading)
LoginSwitch_NotDisabled ==
    /\ simView = "login"
    /\ SetView("signup")
    /\ UNCHANGED <<simUser, loginPending, signupPending>>
    /\ UNCHANGED <<serverVars, fbVars>>

\* The "Sign Up" link of LoginForm: onSwitch('signup'), disabled while loading
LoginSwitch ==
    /\ simView = "login"
    /\ ~loginForm.loading
    /\ SetView("signup")
    /\ UNCHANGED <<simUser, loginPending, signupPending>>
    /\ UNCHANGED <<serverVars, fbVars>>

\* onChange of SignupForm's inputs
SignupType(username, password) ==
    /\ simView = "signup"
    /\ signupForm' = [signupForm EXCEPT !.username = username, !.password = password]
    /\ UNCHANGED <<simView, simUser, loginForm, loginPending, signupPending>>
    /\ UNCHANGED <<serverVars, fbVars>>

\* SignupForm.submit up to its await
SignupSubmit ==
    /\ simView = "signup"
    /\ ~signupForm.loading
    /\ signupForm.username # "" /\ signupForm.password # ""
    /\ signupForm' = [signupForm EXCEPT !.error = "", !.loading = TRUE]
    /\ signupPending' = {SubmitDelayMs}
    /\ UNCHANGED <<simView, simUser, loginForm, loginPending>>
    /\ UNCHANGED <<serverVars, fbVars>>

\* SignupForm.submit after its await: onSwitch('login'), then setLoading(false)
SignupTimer ==
    /\ signupPending # {}
    /\ The(signupPending) = 0
    /\ SetView("login")
    /\ signupPending' = {}
    /\ UNCHANGED <<simUser, loginPending>>
    /\ UNCHANGED <<serverVars, fbVars>>

\* The "Sign In" link of SignupForm: onSwitch('login'), disabled while loading
SignupSwitch ==
    /\ simView = "signup"
    /\ ~signupForm.loading
    /\ SetView("login")
    /\ UNCHANGED <<simUser, loginPending, signupPending>>
    /\ UNCHANGED <<serverVars, fbVars>>

\* handleLogout, from the Dashboard's "Log Out" button
handleLogout ==
    /\ simView = "dashboard"
    /\ simUser' = {}
    /\ SetView("login")
    /\ UNCHANGED <<loginPending, signupPending>>
    /\ UNCHANGED <<serverVars, fbVars>>

\* Time passes while a timer is set
TimerStep ==
    /\ \/ \E p \in loginPending : p.ms > 0
       \/ \E ms \in signupPending : ms > 0
    /\ loginPending' = {[p EXCEPT !.ms = Max(0, p.ms - TimerStepMs)] : p \in loginPending}
    /\ signupPending' = {Max(0, ms - TimerStepMs) : ms \in signupPending}
    /\ UNCHANGED <<simView, simUser, loginForm, signupForm>>
    /\ UNCHANGED <<serverVars, fbVars>>

SimNext ==
    \/ \E username \in TypedUsernames, password \in TypedPasswords :
          LoginType(username, password)
    \/ LoginSubmit
    \/ LoginTimer
    \/ LoginSwitch
    \/ \E username \in TypedUsernames, password \in TypedPasswords :
          SignupType(username, password)
    \/ SignupSubmit
    \/ SignupTimer
    \/ SignupSwitch
    \/ handleLogout
    \/ TimerStep

----------------------------------------------------------------------------
(* The identity-SDK frontend: App with AuthForm and Dashboard. The SDK is not *)
(* part of the program: the model lets it complete or fail a sign-in, complete *)
(* a sign-out, and call the subscribed listener with its current user at any   *)
(* time.                                                                       *)

\* The users the SDK can sign in (anonymously, or with the initial token)
Uids == {"anonUid", "tokenUid"}

\* What a user types into AuthForm's inputs
TypedEmails == {"", "a@b", "ann@x.io"}
TypedAuthPasswords == {"", "12345", "123456"}

\* email.length < 5 || password.length < 6
MinEmailLength == 5
MinPasswordLength == 6

InvalidCredentialsMessage ==
    "Invalid credentials. Please check email and password (min 6 characters)."

\* useState(''), useState(''), useState(false), useState(null)
FreshAuthForm == [email |-> "", password |-> "", isLoading |-> FALSE, error |-> {}]

\* useState('login'), useState(null) for auth and userId, useState(false)
FbInit ==
    /\ fbPhase = "mounting"
    /\ fbView = "login"
    /\ userId = {}
    /\ isAuthReady = FALSE
    /\ auth = {}
    /\ listenerView = {}
    /\ sdkUser = {}
    /\ signingIn = FALSE
    /\ signingOut = FALSE
    /\ authForm = FreshAuthForm
    /\ authPending = {}

\* App's render: which content is mounted
DashboardShown(ready, uid, v) == ready /\ uid # {} /\ v = "dashboard"
AuthFormShown(ready, uid, v) == ready /\ ~DashboardShown(ready, uid, v)

\* A render of App with new state: an AuthForm that is no longer rendered is
\* unmounted, loses its state, and the submits it left waiting act on nothing
FbRender(v, uid, ready, form, pending) ==
    /\ fbView' = v
    /\ userId' = uid
    /\ isAuthReady' = ready
    /\ authForm' = IF AuthFormShown(ready, uid, v) THEN form ELSE FreshAuthForm
    /\ authPending' = IF AuthFormShown(ready, uid, v)
                      THEN pending
                      ELSE {[p EXCEPT !.live = FALSE] : p \in pending}

\* App's effect, run once after the first render: nothing without a
\* configuration; else the listener is subscribed, its closure holding the view
\* of that render, and authenticateUser is called. The SDK may have restored a
\* user of an earlier session.
FbMount(configured, restored) ==
    /\ fbPhase = "mounting"
    /\ IF configured
       THEN /\ fbPhase' = "running"
            /\ auth' = {"authInstance"}
            /\ listenerView' = {fbView}
            /\ sdkUser' = restored
            /\ signingIn' = TRUE
       ELSE /\ fbPhase' = "unconfigured"
            /\ UNCHANGED <<auth, listenerView, sdkUser, signingIn>>
    /\ UNCHANGED <<fbView, userId, isAuthReady, signingOut, authForm, authPending>>
    /\ UNCHANGED <<serverVars, simVars>>

\* The callback given to onAuthStateChanged; its view is the closure's
AuthListener(user) ==
    IF user # {}
    THEN FbRender("dashboard", user, TRUE, authForm, authPending)
    ELSE FbRender(IF The(listenerView) # "register" THEN "login" ELSE fbView,
                  {}, TRUE, authForm, authPending)

\* The SDK calls the listener with its current user
OnAuthStateChanged ==
    /\ listenerView # {}
    /\ AuthListener(sdkUser)
    /\ UNCHANGED <<fbPhase, auth, listenerView, sdkUser, signingIn, signingOut>>
    /\ UNCHANGED <<serverVars, simVars>>

\* authenticateUser: signInWithCustomToken or signInAnonymously resolves
SignInCompletes(uid) ==
    /\ signingIn
    /\ sdkUser' = {uid}
    /\ signingIn' = FALSE
    /\ UNCHANGED <<fbPhase, fbView, userId, isAuthReady, auth, listenerView,
                   signingOut, authForm, authPending>>
    /\ UNCHANGED <<serverVars, simVars>>

\* authenticateUser: signInAnonymously rejects
SignInFails ==
    /\ signingIn
    /\ signingIn' = FALSE
    /\ UNCHANGED <<fbPhase, fbView, userId, isAuthReady, auth, listenerView,
                   sdkUser, signingOut, authForm, authPending>>
    /\ UNCHANGED <<serverVars, simVars>>

\* handleLogout up to its first await, from the Dashboard's "Log Out" button
FbHandleLogout ==
    /\ DashboardShown(isAuthReady, userId, fbView)
    /\ auth # {}
    /\ ~signingOut
    /\ signingOut' = TRUE
    /\ UNCHANGED <<fbPhase, fbView, userId, isAuthReady, auth, listenerView,
                   sdkUser, signingIn, authForm, authPending>>
    /\ UNCHANGED <<serverVars, simVars>>

\* handleLogout after signOut has resolved: authenticateUser(auth)
SignOutCompletes ==
    /\ signingOut
    /\ sdkUser' = {}
    /\ signingOut' = FALSE
    /\ signingIn' = TRUE
    /\ UNCHANGED <<fbPhase, fbView, userId, isAuthReady, auth, listenerView,
                   authForm, authPending>>
    /\ UNCHANGED <<serverVars, simVars>>

\* onChange of AuthForm's inputs
AuthType(email, password) ==
    /\ AuthFormShown(isAuthReady, userId, fbView)
    /\ authForm' = [authForm EXCEPT !.email = email, !.password = password]
    /\ UNCHANGED <<fbPhase, fbView, userId, isAuthReady, auth, listenerView,
                   sdkUser, signingIn, signingOut, authPending>>
    /\ UNCHANGED <<serverVars, simVars>>

\* AuthForm.handleSubmit up to its await: the form submits when both required
\* inputs are filled and the submit button is not disabled
handleSubmit ==
    /\ AuthFormShown(isAuthReady, userId, fbView)
    /\ ~authForm.isLoading
    /\ authForm.email # "" /\ authForm.password # ""
    /\ authForm' = [authForm EXCEPT !.error = {}, !.isLoading = TRUE]
    /\ authPending' = authPending \cup
          {[email |-> authForm.email, password |-> authForm.password, live |-> TRUE]}
    /\ UNCHANGED <<fbPhase, fbView, userId, isAuthReady, auth, listenerView,
                   sdkUser, signingIn, signingOut>>
    /\ UNCHANGED <<serverVars, simVars>>

\* AuthForm.handleSubmit after its await: the basic validation, then either the
\* error is shown or onAuthSuccess() (App's handleAuthSuccess) sets the view
AuthTimer(p) ==
    /\ p \in authPending
    /\ IF Len(p.email) < MinEmailLength \/ Len(p.password) < MinPasswordLength
       THEN FbRender(fbView, userId, isAuthReady,
                     IF p.live
                     THEN [authForm EXCEPT !.error = {InvalidCredentialsMessage},
                                           !.isLoading = FALSE]
                     ELSE authForm,
                     authPending \ {p})
       ELSE FbRender("dashboard", userId, isAuthReady, authForm, authPending \ {p})
    /\ UNCHANGED <<fbPhase, auth, listenerView, sdkUser, signingIn, signingOut>>
    /\ UNCHANGED <<serverVars, simVars>>

\* AuthForm's link: onSwitchView(isLogin ? 'register' : 'login'), disabled
\* while isLoading; the form's type is 'register' only in the view 'register'
SwitchView ==
    /\ AuthFormShown(isAuthReady, userId, fbView)
    /\ ~authForm.isLoading
    /\ FbRender(IF fbView = "register" THEN "login" ELSE "register",
                userId, isAuthReady, authForm, authPending)
    /\ UNCHANGED <<fbPhase, auth, listenerView, sdkUser, signingIn, signingOut>>
    /\ UNCHANGED <<serverVars, simVars>>

FbNext ==
    \/ \E configured \in BOOLEAN, restored \in {{}} \cup {{uid} : uid \in Uids} :
          FbMount(configured, restored)
    \/ OnAuthStateChanged
    \/ \E uid \in Uids : SignInCompletes(uid)
    \/ SignInFails
    \/ FbHandleLogout
    \/ SignOutCompletes
    \/ \E email \in TypedEmails, password \in TypedAuthPasswords :
          AuthType(email, password)
    \/ handleSubmit
    \/ \E p \in authPending : AuthTimer(p)
    \/ SwitchView

----------------------------------------------------------------------------
(* The state machine *)

\* Both files are created empty when the server starts
Init ==
    /\ users = <<>>
    /\ logs = <<>>
    /\ now = 0
    /\ inflight = EmptyBag
    /\ sent = 0
    /\ last = {}
    /\ reg = <<>>
    /\ SimInit
    /\ FbInit

\* A client sends a request; it is in flight until the server handles it
Send(op, username, password) ==
    /\ sent < MaxRequests
    /\ BagCardinality(inflight) < MaxInFlight
    /\ sent' = sent + 1
    /\ inflight' = inflight (+)
          SetToBag({[op |-> op, username |-> username, password |-> password]})
    /\ UNCHANGED <<users, logs, now, last, reg>>
    /\ UNCHANGED <<simVars, fbVars>>

\* What handling request r leaves behind; a handler run takes TickMs
Handled(r, out) ==
    /\ users' = out.users
    /\ logs' = out.logs
    /\ last' = {[username |-> r.username, res |-> out.res, io |-> out.io]}
    /\ inflight' = inflight (-) SetToBag({r})
    /\ now' = now + TickMs
    /\ UNCHANGED sent
    /\ UNCHANGED <<simVars, fbVars>>

\* The server runs the signup handler on a request in flight
HandleSignup(r) ==
    /\ BagIn(r, inflight)
    /\ r.op = "signup"
    /\ \E salt \in Salts :
          LET out == Signup(users, logs, r, now, salt)
          IN  /\ Handled(r, out)
              /\ reg' = IF out.res.status = 200
                        THEN [u \in DOMAIN reg \cup r.username |->
                                 IF u \in r.username THEN The(r.password) ELSE reg[u]]
                        ELSE reg

\* The server runs the login handler on a request in flight
HandleLogin(r) ==
    /\ BagIn(r, inflight)
    /\ r.op = "login"
    /\ Handled(r, Login(users, logs, r, now))
    /\ UNCHANGED reg

Next ==
    \/ \E op \in {"signup", "login"}, username \in UsernameInputs,
          password \in PasswordInputs : Send(op, username, password)
    \/ \E r \in BagToSet(inflight) : HandleSignup(r)
    \/ \E r \in BagToSet(inflight) : HandleLogin(r)

Spec == Init /\ [][Next]_vars

\* The client-only frontend alone. The browser fires a timer that is set:
\* setTimeout(r, 300)
SimSpec ==
    /\ Init
    /\ [][SimNext]_vars
    /\ WF_vars(TimerStep)
    /\ WF_vars(LoginTimer)
    /\ WF_vars(SignupTimer)

\* The identity-SDK frontend alone
FbSpec == Init /\ [][FbNext]_vars

----------------------------------------------------------------------------
(* Vocabulary of the properties *)

\* The step handles request r: r leaves the bag of requests in flight
Handles(r) == BagIn(r, inflight) /\ inflight' = inflight (-) SetToBag({r})

\* r passes input validation and names username u with password p
Validated(r) == ~MissingField(r)
UsernameOf(r) == The(r.username)
PasswordOf(r) == The(r.password)

\* s is a prefix of t
IsPrefix(s, t) == Len(s) <= Len(t) /\ SubSeq(t, 1, Len(s)) = s

\* The body of a request for username u with password p
Body(op, u, p) == [op |-> op, username |-> {u}, password |-> {p}]

----------------------------------------------------------------------------
(* C1 *)

\* C1: once register(u, p) has succeeded for a username u that was not in the
\* credential store, every authenticate(u, p) handled later returns success,
\* whatever was handled in between.
C1_RegisterThenAuthenticate ==
    [][\A r \in BagToSet(inflight) :
          ( /\ Handles(r)
            /\ r.op = "login"
            /\ Validated(r)
            /\ UsernameOf(r) \in DOMAIN reg
            /\ reg[UsernameOf(r)] = PasswordOf(r) )
          => The(last').res = LoginOkResponse]_vars

\* A login with the registered password has succeeded after an earlier
\* attempt on a registered username was logged
C1_Witness ==
    /\ last # {}
    /\ The(last).res = LoginOkResponse
    /\ Len(logs) >= 2

----------------------------------------------------------------------------
(* C2 *)

\* C2: a register call for a username already in the credential store fails
\* with 409 and leaves that username's record (hash and createdAt) as it was.
C2_DuplicateRegisterConflicts ==
    [][\A r \in BagToSet(inflight) :
          ( /\ Handles(r)
            /\ r.op = "signup"
            /\ Validated(r)
            /\ UsernameOf(r) \in DOMAIN users )
          => /\ The(last').res = ConflictResponse
             /\ UsernameOf(r) \in DOMAIN users'
             /\ users'[UsernameOf(r)] = users[UsernameOf(r)]]_vars

\* A second registration of a stored username has been answered with 409
C2_Witness ==
    /\ last # {}
    /\ The(last).res = ConflictResponse
    /\ The(last).username \subseteq DOMAIN users

----------------------------------------------------------------------------
(* C3 *)

\* C3: for non-empty username and password, authenticate answers an
\* unregistered username exactly as it answers a registered username with a
\* wrong password: 401 with the same body.
C3_SameFailureResponse ==
    \A u1 \in Usernames, u2 \in Usernames, p1 \in Passwords, p2 \in Passwords :
        ( /\ u1 \notin DOMAIN users
          /\ u2 \in DOMAIN users
          /\ ~compareSync(p2, users[u2].passwordHash) )
        => LET unknown == Login(users, logs, Body("login", u1, p1), now).res
               wrong == Login(users, logs, Body("login", u2, p2), now).res
           IN  /\ unknown = wrong
               /\ wrong = InvalidCredentialsResponse

----------------------------------------------------------------------------
(* C4 *)

\* C4: every authenticate call that passes input validation appends exactly
\* one entry to the attempt log, whatever its outcome.  (Stated for the
\* usernames that name no property of Object.prototype, for which the handler
\* does not throw.)
C4_EveryAttemptLogged ==
    [][\A r \in BagToSet(inflight) :
          ( /\ Handles(r)
            /\ r.op = "login"
            /\ Validated(r)
            /\ UsernameOf(r) \notin ObjectPrototypeKeys )
          => Len(logs') = Len(logs) + 1]_vars

----------------------------------------------------------------------------
(* C5 *)

\* C5: the attempt log is append-only: the log before a step is a prefix of the
\* log after it, and what a step adds is one entry at the end, for the login
\* handled in that step, so the entries are in the order of the calls.
C5_LogAppendOnly ==
    [][/\ IsPrefix(logs, logs')
       /\ logs' # logs =>
            /\ Len(logs') = Len(logs) + 1
            /\ \E r \in BagToSet(inflight) :
                  /\ Handles(r)
                  /\ r.op = "login"
                  /\ logs'[Len(logs')].username = UsernameOf(r)
            /\ logs # <<>> => logs'[Len(logs')].date >= logs[Len(logs)].date]_vars

\* Two attempts with different outcomes have been logged, one after the other
C5_Witness ==
    /\ Len(logs) = 2
    /\ logs[1].success # logs[2].success

----------------------------------------------------------------------------
(* C6 *)

\* C6: an entry of the attempt log holds a username, a timestamp and the
\* success flag and nothing else; no field carries a password.
C6_NoPasswordInLog ==
    \A i \in 1..Len(logs) :
        /\ DOMAIN logs[i] = {"username", "date", "success"}
        /\ logs[i].username \in Usernames
        /\ logs[i].date \in Nat
        /\ logs[i].success \in BOOLEAN

\* An attempt with a wrong password has just been logged
C6_Witness ==
    /\ last # {}
    /\ The(last).res = InvalidCredentialsResponse
    /\ The(last).io = <<"read users", "read logs", "write logs">>
    /\ ~logs[Len(logs)].success

----------------------------------------------------------------------------
(* C7 *)

\* C7: register and authenticate answer a request whose username or password
\* is missing or empty with 400 before any storage access: the handler makes no
\* fs call and both files are unchanged.
C7_ValidationBeforeStorage ==
    [][\A r \in BagToSet(inflight) :
          (Handles(r) /\ MissingField(r))
          => /\ The(last').res = RequiredResponse
             /\ The(last').io = <<>>
             /\ users' = users
             /\ logs' = logs]_vars

\* A request with a missing or empty field has been rejected while the store
\* and the log hold data
C7_Witness ==
    /\ last # {}
    /\ The(last).res = RequiredResponse
    /\ users # <<>>
    /\ logs # <<>>

----------------------------------------------------------------------------
(* C8 *)

\* C8: the credential store maps a username to one record, and a record, once
\* created, is never updated or deleted by a later register or authenticate.
C8_RecordsImmutable ==
    [][\A u \in DOMAIN users :
          /\ u \in DOMAIN users'
          /\ users'[u] = users[u]]_vars

\* Two usernames are registered and a later call has been handled
C8_Witness ==
    /\ Cardinality(DOMAIN users) = 2
    /\ last # {}
    /\ The(last).res # SignupOkResponse

----------------------------------------------------------------------------
(* C9 *)

\* Two register calls for the same username that is not in the credential store
\* are in flight together
Racing(r1, r2) ==
    /\ BagIn(r1, inflight) /\ BagIn(r2, inflight)
    /\ r1 # r2 \/ CopiesIn(r1, inflight) >= 2
    /\ r1.op = "signup" /\ r2.op = "signup"
    /\ Validated(r1) /\ Validated(r2)
    /\ UsernameOf(r1) = UsernameOf(r2)
    /\ UsernameOf(r1) \notin DOMAIN users

\* C9 as stated: two concurrent register calls for the same unregistered
\* username can both return success, the later write replacing the earlier.
\* (Stated for the usernames that name no property of Object.prototype, which
\* are the ones a register call can succeed for.)
C9_BothRegistersCanSucceed ==
    \A r1 \in BagToSet(inflight), r2 \in BagToSet(inflight) :
        (Racing(r1, r2) /\ UsernameOf(r1) \notin ObjectPrototypeKeys) =>
            \E s1 \in Salts, s2 \in Salts :
                LET first == Signup(users, logs, r1, now, s1)
                    second == Signup(first.users, first.logs, r2, now + TickMs, s2)
                IN  /\ first.res = SignupOkResponse
                    /\ second.res = SignupOkResponse
                    /\ second.users[UsernameOf(r2)] =
                          CredentialRecord(PasswordOf(r2), s2, now + TickMs)

\* C9 (amended): two concurrent register calls for the same unregistered
\* username are handled one after the other, each handler running to
\* completion; the one handled second fails with 409 and leaves the store as
\* the first left it, so they never both succeed and nothing is overwritten.
C9_RegistersSerialized ==
    \A r1 \in BagToSet(inflight), r2 \in BagToSet(inflight) :
        Racing(r1, r2) =>
            \A s1 \in Salts, s2 \in Salts :
                LET first == Signup(users, logs, r1, now, s1)
                    second == Signup(first.users, first.logs, r2, now + TickMs, s2)
                IN  /\ second.res = ConflictResponse
                    /\ second.users = first.users
                    /\ first.res \in {SignupOkResponse, ConflictResponse}

\* Two register calls with different passwords for the same unregistered
\* username are in flight while another username is registered
C9_Witness ==
    \E r1 \in BagToSet(inflight), r2 \in BagToSet(inflight) :
        /\ Racing(r1, r2)
        /\ r1.password # r2.password
        /\ UsernameOf(r1) \notin ObjectPrototypeKeys
        /\ users # <<>>

----------------------------------------------------------------------------
(* C10 *)

\* C10: authenticate returns success only if the username is in the credential
\* store and the password is the one it was registered with; every other
\* validated call fails with 401 invalid credentials.
C10_SuccessIffRegisteredPassword ==
    [][\A r \in BagToSet(inflight) :
          (Handles(r) /\ r.op = "login" /\ Validated(r))
          => IF /\ UsernameOf(r) \in DOMAIN users
                /\ UsernameOf(r) \in DOMAIN reg
                /\ reg[UsernameOf(r)] = PasswordOf(r)
             THEN The(last').res = LoginOkResponse
             ELSE The(last').res = InvalidCredentialsResponse]_vars

----------------------------------------------------------------------------
(* C11 *)

\* C11: whenever authenticate appends an entry to the attempt log, the entry's
\* username is the username of the call and its success flag is the outcome
\* returned: true exactly when the answer is 200 success, false exactly when it
\* is 401.
C11_EntryMatchesOutcome ==
    [][\A r \in BagToSet(inflight) :
          (Handles(r) /\ r.op = "login" /\ logs' # logs)
          => LET entry == logs'[Len(logs')]
                 res == The(last').res
             IN  /\ entry.username = UsernameOf(r)
                 /\ entry.success <=> res = LoginOkResponse
                 /\ ~entry.success <=> res = InvalidCredentialsResponse]_vars

\* A successful attempt has just been logged after a failed one
C11_Witness ==
    /\ last # {}
    /\ The(last).res = LoginOkResponse
    /\ Len(logs) >= 2
    /\ logs[Len(logs)].success
    /\ ~logs[Len(logs) - 1].success

----------------------------------------------------------------------------
(* C12 *)

\* C12: in the client-only frontend a submit of the login form always succeeds
\* after the delay and without a call to the server: the submit holds the
\* username entered, its timer runs out, handleAuthSuccess is called, and then
\* view is "dashboard" and user is that username; while the submit is pending
\* the view cannot become "signup"; leaving the dashboard (Log Out) sets user
\* to null and view to "login".
C12_SimulatedLoginSucceeds ==
    /\ [][
          /\ (loginPending = {} /\ loginPending' # {}) =>
               (/\ simView = "login"
                /\ The(loginPending').username = loginForm.username)
          /\ (loginPending # {} /\ loginPending' = {}) =>
               (/\ The(loginPending).ms = 0
                /\ simView' = "dashboard"
                /\ simUser' = {[username |-> The(loginPending).username]})
          /\ (simView = "login" /\ loginPending # {}) => simView' # "signup"
          /\ (simView = "dashboard" /\ simView' # "dashboard") =>
               (simUser' = {} /\ simView' = "login")
          /\ UNCHANGED <<inflight, sent>>
       ]_vars
    /\ \A n \in TypedUsernames :
          (simView = "login" /\ \E p \in loginPending : p.username = n)
          ~> (simView = "dashboard" /\ simUser = {[username |-> n]})

\* A simulated login has put the dashboard up for the username entered
C12_Witness ==
    /\ simView = "dashboard"
    /\ simUser = {[username |-> "ann"]}
    /\ loginPending = {}

----------------------------------------------------------------------------
(* C13 *)

\* C13: in the identity-SDK frontend, when the auth-state listener is called
\* with no signed-in user it sets userId to null, leaves the view "register" if
\* that is the current view, and otherwise sets the view to "login".
C13_RegisterViewKept ==
    [][(OnAuthStateChanged /\ sdkUser = {}) =>
          (/\ userId' = {}
           /\ (fbView = "register" => fbView' = "register")
           /\ (fbView # "register" => fbView' = "login"))]_vars

============================================================================
